---- MODULE Spec2Model ----
(***************************************************************************)
(* MonotonicRejectionGP (aepsych/models/monotonic_rejection_gp.py) and the *)
(* AEPsychModel base (aepsych/models/base.py) as a state machine.          *)
(*                                                                         *)
(* Tensors are sequences: a 2-d tensor is a sequence of rows, a row is a   *)
(* sequence of numbers.  Indices into tensors are 0-based as in the code   *)
(* (At(s, i) reads element i).  Real numbers that arise from division are   *)
(* exact rationals [num, den]; NaN is the value torch produces for 0/0.    *)
(* Probabilities and latent values of the prior mean are in thousandths.   *)
(***************************************************************************)
EXTENDS Integers, Sequences, FiniteSets, TLC

VARIABLES
    config,                 \* the Config the model was built from, or None
    init_args,              \* the arguments __init__ was called with
    dim, lb, ub,            \* AEPsychModel.__init__: self.dim, self.lb, self.ub
    monotonic_idxs,         \* self.monotonic_idxs
    num_induc,              \* self.num_induc
    num_samples,            \* self.num_samples
    num_rejection_samples,  \* self.num_rejection_samples
    likelihood,             \* class of self.likelihood
    fixed_prior_mean,       \* self.fixed_prior_mean
    inducing_points,        \* self.inducing_points
    requires_grad,          \* mean_module.constant.requires_grad
    model_state,            \* self.state_dict()
    likelihood_state,       \* self.likelihood.state_dict()
    train_inputs,           \* self.train_inputs
    train_targets,          \* self.train_targets
    call,                   \* the call the caller holds the result of, with
                            \* the locals of its body; idle between calls
    ret,                    \* what that call returned
    warned,                 \* warnings that call emitted
    raised                  \* the exception that call raised, or NoError

self_ == <<config, init_args, dim, lb, ub, monotonic_idxs, num_induc, num_samples,
           num_rejection_samples, likelihood, fixed_prior_mean,
           inducing_points, requires_grad>>
params == <<model_state, likelihood_state>>
data == <<train_inputs, train_targets>>
io == <<call, ret, warned, raised>>
vars == <<self_, params, data, io>>

(* Optional values: None, or Some(v) holding v. *)
None == <<>>
Some(v) == <<v>>
Get(o) == o[1]

NaN == [num |-> 0, den |-> 0]
NoError == "NoError"

----------------------------------------------------------------------------
(* Bounds of the model *)

MaxDim == 2
MaxInduc == 2
MaxRows == 2
MaxSamples == 2
MaxRejection == 3
MaxPeriod == 2
MaxGrid == 2

(* Program constants *)

default_num_induc == 25
default_num_samples == 250
default_num_rejection_samples == 5000
rejection_ratio == 20

----------------------------------------------------------------------------
(* Sequences and tensors *)

Min(a, b) == IF a <= b THEN a ELSE b

At(s, i) == s[i + 1]

arange(a, b) == [k \in 1..(IF b > a THEN b - a ELSE 0) |-> a + k - 1]

Range(s) == {s[k] : k \in 1..Len(s)}

RECURSIVE SumSeq(_)
SumSeq(s) == IF s = <<>> THEN 0 ELSE Head(s) + SumSeq(Tail(s))

RECURSIVE Select(_, _)
Select(s, keep) ==
    IF s = <<>> THEN <<>>
    ELSE IF Head(keep) THEN <<Head(s)>> \o Select(Tail(s), Tail(keep))
    ELSE Select(Tail(s), Tail(keep))

Prefix(s, k) == SubSeq(s, 1, Min(k, Len(s)))

----------------------------------------------------------------------------
(* scipy.stats.norm on thousandths: ppf on the listed probabilities, cdf   *)
(* as the step function through the same table.                            *)

PpfTable == [p \in {23, 159, 250, 500, 750, 841, 977} |->
                CASE p = 23 -> -2000 [] p = 159 -> -1000 [] p = 250 -> -674
                  [] p = 500 -> 0 [] p = 750 -> 674 [] p = 841 -> 1000
                  [] p = 977 -> 2000]

norm_ppf(p) == PpfTable[p]

Rat(n, d) == [num |-> n, den |-> d]

norm_cdf(x) ==
    IF x = NaN THEN NaN
    ELSE LET z == x.num \div x.den
         IN  Rat(CASE z < -2 -> 1 [] z = -2 -> 23 [] z = -1 -> 159
                   [] z = 0 -> 500 [] z = 1 -> 841 [] z = 2 -> 977
                   [] z > 2 -> 999, 1000)

----------------------------------------------------------------------------
(* Construction *)

_augment_with_deriv_index_first(X, indx) ==
    [r \in 1..Len(X) |-> <<indx>> \o X[r]]

_augment_with_deriv_index(X, indx) ==
    [r \in 1..Len(X) |-> Append(X[r], indx)]

_process_bounds(lb_, ub_, dim_) ==
    [lb |-> lb_, ub |-> ub_, dim |-> IF dim_ = None THEN Len(lb_) ELSE Get(dim_)]

draw_sobol_samples(lb_, ub_, n, seed) ==
    [i \in 1..n |->
        [k \in 1..Len(lb_) |->
            lb_[k] + ((seed + i + k) % (ub_[k] - lb_[k] + 1))]]

init_inducing_points_dim(lb_, ub_, num_induc_, seed) ==
    draw_sobol_samples(lb_, ub_, Len(lb_), seed)

init_inducing_points(lb_, ub_, num_induc_, seed) ==
    draw_sobol_samples(lb_, ub_, num_induc_, seed)

mean_constant_learnable(likelihood_, fixed_prior_mean_) ==
    IF fixed_prior_mean_ # None
    THEN [constant |-> IF likelihood_ = "BernoulliLikelihood"
                       THEN norm_ppf(Get(fixed_prior_mean_))
                       ELSE Get(fixed_prior_mean_),
          requires_grad |-> TRUE]
    ELSE [constant |-> 0, requires_grad |-> TRUE]

mean_constant_init(likelihood_, fixed_prior_mean_) ==
    IF fixed_prior_mean_ # None
    THEN [constant |-> IF likelihood_ = "BernoulliLikelihood"
                       THEN norm_ppf(Get(fixed_prior_mean_))
                       ELSE Get(fixed_prior_mean_),
          requires_grad |-> FALSE]
    ELSE [constant |-> 0, requires_grad |-> TRUE]

getlist(config_, key, fallback) ==
    IF config_[key] = None THEN fallback ELSE Get(config_[key])

from_config(config_) ==
    [monotonic_idxs |-> getlist(config_, "monotonic_idxs", <<-1>>),
     lb |-> config_.lb,
     ub |-> config_.ub,
     dim |-> config_.dim,
     likelihood |-> None,
     fixed_prior_mean |-> None,
     num_induc |-> getlist(config_, "num_induc", default_num_induc),
     num_samples |-> getlist(config_, "num_samples", default_num_samples),
     num_rejection_samples |->
         getlist(config_, "num_rejection_samples", default_num_rejection_samples),
     seed |-> config_.seed]

__init__(args, config_) ==
    LET b == _process_bounds(args.lb, args.ub, args.dim)
        lik == IF args.likelihood = None THEN "BernoulliLikelihood"
               ELSE Get(args.likelihood)
        m == mean_constant_init(lik, args.fixed_prior_mean)
    IN  /\ config = config_
        /\ init_args = args
        /\ dim = b.dim
        /\ lb = b.lb
        /\ ub = b.ub
        /\ likelihood = lik
        /\ inducing_points = init_inducing_points(b.lb, b.ub, args.num_induc, args.seed)
        /\ requires_grad = m.requires_grad
        /\ model_state = [constant |-> m.constant, variational_mean |-> 0]
        /\ likelihood_state = [noise |-> 0]
        /\ num_induc = args.num_induc
        /\ monotonic_idxs = args.monotonic_idxs
        /\ num_samples = args.num_samples
        /\ num_rejection_samples = args.num_rejection_samples
        /\ fixed_prior_mean = IF args.fixed_prior_mean = None THEN None
                              ELSE Some(m.constant)
        /\ train_inputs = None
        /\ train_targets = None
        /\ call = [op |-> "idle"]
        /\ ret = None
        /\ warned = {}
        /\ raised = NoError

----------------------------------------------------------------------------
(* The posterior over the augmented points.  A joint draw gives a function *)
(* value at every row tagged 0 and a derivative value at every row tagged  *)
(* k > 0.  Draw r of a batch follows shape[r] (cyclically): the sign       *)
(* pattern of its derivative values.                                       *)

Shapes == {"pos", "zero", "firstneg", "lastneg"}

Tag(row) == row[Len(row)]

DerivRows(x_aug) == {p \in 1..Len(x_aug) : Tag(x_aug[p]) > 0}

First(rows) == IF rows = {} THEN 0 ELSE CHOOSE p \in rows : \A q \in rows : p <= q

Last(rows) == IF rows = {} THEN 0 ELSE CHOOSE p \in rows : \A q \in rows : p >= q

FVal(r, p) == (MaxRows + 1) * (r - 1) + p - MaxRows

DVal(shape, p, first, last) ==
    CASE shape = "pos" -> 1
      [] shape = "zero" -> 0
      [] shape = "firstneg" -> IF p = first THEN -1 ELSE 1
      [] shape = "lastneg" -> IF p = last THEN -1 ELSE 1

posterior(x_aug, shape) == [x_aug |-> x_aug, shape |-> shape]

rsample(post, count) ==
    LET first == First(DerivRows(post.x_aug))
        last == Last(DerivRows(post.x_aug))
    IN  [r \in 1..count |->
            [p \in 1..Len(post.x_aug) |->
                IF Tag(post.x_aug[p]) = 0 THEN FVal(r, p)
                ELSE DVal(post.shape[((r - 1) % Len(post.shape)) + 1],
                          p, first, last)]]

(* aepsych.acquisition.rejection_sampler.RejectionSampler *)
RejectionSampler(post, num_samples_, num_rejection_samples_, constrained_idx) ==
    LET draws == rsample(post, num_rejection_samples_)
        valid == [r \in 1..Len(draws) |->
                     \A k \in Range(constrained_idx) : At(draws[r], k) >= 0]
        passing == Select(draws, valid)
    IN  [samples |-> Prefix(passing, num_samples_),
         warned |-> IF Len(passing) < num_samples_ THEN {"shortfall"} ELSE {}]

----------------------------------------------------------------------------
(* sample *)

RECURSIVE _get_deriv_constraint_points_untagged(_, _)
_get_deriv_constraint_points_untagged(idxs, induc) ==
    IF idxs = <<>> THEN <<>>
    ELSE _augment_with_deriv_index(induc, Head(idxs))
             \o _get_deriv_constraint_points_untagged(Tail(idxs), induc)

_get_deriv_constraint_points_one_block(idxs, induc) ==
    IF idxs = <<>> THEN <<>>
    ELSE _augment_with_deriv_index(induc, Head(idxs) + 1)

RECURSIVE _get_deriv_constraint_points(_, _)
_get_deriv_constraint_points(idxs, induc) ==
    IF idxs = <<>> THEN <<>>
    ELSE _augment_with_deriv_index(induc, Head(idxs) + 1)
             \o _get_deriv_constraint_points(Tail(idxs), induc)

or_default_ignored(arg, default) == default

or_default(arg, default) == IF arg = None THEN default ELSE Get(arg)

budget_warning_at_least(num_samples_, num_rejection_samples_) ==
    IF num_samples_ * rejection_ratio >= num_rejection_samples_
    THEN {"budget"} ELSE {}

budget_warning(num_samples_, num_rejection_samples_) ==
    IF num_samples_ * rejection_ratio > num_rejection_samples_
    THEN {"budget"} ELSE {}

constrained_idx_skip(n, rows) == arange(n + 1, rows)

constrained_idx_of(n, rows) == arange(n, rows)

samples_f_wrong_axis(samples, n) == Prefix(samples, n)

samples_f_of(samples, n) == [s \in 1..Len(samples) |-> SubSeq(samples[s], 1, n)]

sample(X, num_samples_arg, num_rejection_samples_arg, shape) ==
    LET ns == or_default(num_samples_arg, num_samples)
        nrs == or_default(num_rejection_samples_arg, num_rejection_samples)
        n == Len(X)
        deriv_cp == _get_deriv_constraint_points(monotonic_idxs, inducing_points)
        x_aug == _augment_with_deriv_index(X, 0) \o deriv_cp
    IN  IF Len(x_aug) # Len(X) + Len(monotonic_idxs) * num_induc
        THEN [op |-> "sample", raised |-> "AssertionError", ret |-> None,
              warned |-> budget_warning(ns, nrs),
              n |-> n, x_aug |-> x_aug, deriv_cp |-> deriv_cp,
              constrained_idx |-> <<>>, samples |-> <<>>]
        ELSE LET constrained_idx == constrained_idx_of(n, Len(x_aug))
                 out == RejectionSampler(posterior(x_aug, shape), ns, nrs,
                                         constrained_idx)
             IN  [op |-> "sample", raised |-> NoError,
                  ret |-> Some(samples_f_of(out.samples, n)),
                  warned |-> budget_warning(ns, nrs) \cup out.warned,
                  n |-> n, x_aug |-> x_aug, deriv_cp |-> deriv_cp,
                  constrained_idx |-> constrained_idx, samples |-> out.samples]

----------------------------------------------------------------------------
(* predict.  A 1-d tensor is [shape, data]; shape <<>> is a 0-d tensor.    *)

torch_mean(samples_f, n) ==
    [shape |-> <<n>>,
     data |-> [i \in 1..n |->
                 IF Len(samples_f) = 0 THEN NaN
                 ELSE Rat(SumSeq([s \in 1..Len(samples_f) |-> samples_f[s][i]]),
                          Len(samples_f))]]

torch_var(samples_f, n) ==
    [shape |-> <<n>>,
     data |-> [i \in 1..n |->
                 LET k == Len(samples_f)
                     sum == SumSeq([s \in 1..k |-> samples_f[s][i]])
                     sumsq == SumSeq([s \in 1..k |-> samples_f[s][i] * samples_f[s][i]])
                 IN  IF k <= 1 THEN NaN
                     ELSE Rat(k * sumsq - sum * sum, k * (k - 1))]]

clamp_min(t, low) ==
    [shape |-> t.shape,
     data |-> [i \in 1..Len(t.data) |->
                 IF t.data[i] = NaN THEN NaN
                 ELSE IF t.data[i].num < low * t.data[i].den
                      THEN Rat(low, 1) ELSE t.data[i]]]

squeeze(t) ==
    [shape |-> SelectSeq(t.shape, LAMBDA d : d # 1), data |-> t.data]

map_cdf(t) ==
    [shape |-> t.shape, data |-> [i \in 1..Len(t.data) |-> norm_cdf(t.data[i])]]

promote_0d(t) == IF t.shape = <<>> THEN [shape |-> <<1>>, data |-> t.data] ELSE t

predict(X, probability_space, shape) ==
    LET s == sample(X, None, None, shape)
    IN  IF s.raised # NoError THEN [s EXCEPT !.op = "predict"]
        ELSE LET samples_f == Get(s.ret)
                 mean == squeeze(torch_mean(samples_f, Len(X)))
                 variance == squeeze(clamp_min(torch_var(samples_f, Len(X)), 0))
             IN  [s EXCEPT !.op = "predict", !.ret =
                    IF probability_space
                    THEN Some(<<promote_0d(map_cdf(mean)),
                                promote_0d(map_cdf(variance))>>)
                    ELSE Some(<<mean, variance>>)]

----------------------------------------------------------------------------
(* The queries of the base class: _get_extremum and get_jnd.  A raised    *)
(* error carries its message as the sequence of its parts.                 *)

RatLess(a, b) == a.num * b.den < b.num * a.den

RECURSIVE Pow(_, _)
Pow(b, e) == IF e = 0 THEN 1 ELSE b * Pow(b, e - 1)

(* int(n ** (1 / d)), exact for the perfect powers the grids have. *)
int_root(n, d) == CHOOSE g \in 0..n : Pow(g, d) <= n /\ Pow(g + 1, d) > n

make_scaled_sobol(lb_, ub_, n, seed) == draw_sobol_samples(lb_, ub_, n, seed)

(* The mesh of gridsize points a side between the bounds. *)
dim_grid(lb_, ub_, dim_, gridsize) ==
    [i \in 1..Pow(gridsize, dim_) |->
        [k \in 1..dim_ |->
            lb_[k] + ((((i - 1) \div Pow(gridsize, k - 1)) % gridsize)
                          * (ub_[k] - lb_[k])) \div (gridsize - 1)]]

(* torch.where(fmean == best)[0][0]: the first row holding the extreme    *)
(* value; there is none when the mean is NaN.                              *)
first_where(values, sign) ==
    CHOOSE i \in 1..Len(values) :
        /\ \A j \in 1..Len(values) :
              ~(IF sign > 0 THEN RatLess(values[i], values[j])
                            ELSE RatLess(values[j], values[i]))
        /\ \A j \in 1..(i - 1) :
              IF sign > 0 THEN RatLess(values[j], values[i])
                          ELSE RatLess(values[i], values[j])

Query(raised_, message, ret_, warned_) ==
    [raised |-> raised_, message |-> message, ret |-> ret_, warned |-> warned_]

_get_extremum(extremum_type, n_samples, a, shape) ==
    LET d == make_scaled_sobol(lb, ub, n_samples, 0)
        p == predict(d, FALSE, shape)
        fmean == Get(p.ret)[1]
        no_row == \E i \in 1..Len(fmean.data) : fmean.data[i] = NaN
    IN  IF p.raised # NoError THEN Query(p.raised, <<>>, None, p.warned)
        ELSE IF extremum_type = "max"
        THEN IF no_row
             THEN Query("IndexError", <<"index 0 is out of bounds">>, None, p.warned)
             ELSE LET estimate == d[first_where(fmean.data, 1)]
                  IN  Query(NoError, <<>>, Some(<<-a.fun, a.x>>), p.warned)
        ELSE IF extremum_type = "min"
        THEN IF no_row
             THEN Query("IndexError", <<"index 0 is out of bounds">>, None, p.warned)
             ELSE LET estimate == d[first_where(fmean.data, -1)]
                  IN  Query(NoError, <<>>, Some(<<a.fun, a.x>>), p.warned)
        ELSE Query("RuntimeError",
                   <<"Unknown extremum type", extremum_type,
                     "Valid types: 'min', 'max'">>, None, p.warned)

get_jnd(grid, cred_level, confsamps, method, shape) ==
    LET gridsize == int_root(Len(grid), Len(grid[1]))
        fits == Pow(gridsize, dim) = Len(grid)
        bad_shape == Query("RuntimeError", <<"shape is invalid for input">>,
                           None, {})
    IN  IF cred_level = None /\ method \in {"taylor", "step"}
        THEN LET p == predict(grid, FALSE, shape)
             IN  IF p.raised # NoError THEN Query(p.raised, <<>>, None, p.warned)
                 ELSE IF ~fits THEN [bad_shape EXCEPT !.warned = p.warned]
                 ELSE Query(NoError, <<>>,
                            Some([jnd |-> method, of |-> Get(p.ret)[1].data]),
                            p.warned)
        ELSE IF cred_level = None
        THEN LET p == predict(grid, FALSE, shape)
             IN  IF p.raised # NoError THEN Query(p.raised, <<>>, None, p.warned)
                 ELSE IF ~fits THEN [bad_shape EXCEPT !.warned = p.warned]
                 ELSE Query("TypeError",
                            <<"unsupported operand type(s) for -",
                              "int", "NoneType">>, None, p.warned)
        ELSE LET alpha == 100 - Get(cred_level)
                 s == sample(grid, Some(confsamps), None, shape)
                 fsamps == Get(s.ret)
             IN  IF s.raised # NoError THEN Query(s.raised, <<>>, None, s.warned)
                 ELSE IF method = "taylor"
                 THEN IF Len(fsamps) # confsamps \/ ~fits
                      THEN [bad_shape EXCEPT !.warned = s.warned]
                      ELSE Query(NoError, <<>>,
                                 Some([jnd |-> method, of |-> fsamps,
                                       alpha |-> alpha]), s.warned)
                 ELSE IF method = "step"
                 THEN IF ~fits
                      THEN [bad_shape EXCEPT !.warned = s.warned]
                      ELSE IF fsamps = <<>>
                      THEN Query("RuntimeError",
                                 <<"stack expects a non-empty TensorList">>,
                                 None, s.warned)
                      ELSE Query(NoError, <<>>,
                                 Some([jnd |-> method, of |-> fsamps,
                                       alpha |-> alpha]), s.warned)
                 ELSE Query("RuntimeError", <<"Unknown method", method>>,
                            None, s.warned)

----------------------------------------------------------------------------
(* fit and update *)

set_train_data_appending(x, y) ==
    [train_inputs |-> IF train_inputs = None THEN <<x>> ELSE <<train_inputs[1] \o x>>,
     train_targets |-> IF train_targets = None THEN Some(y)
                       ELSE Some(Get(train_targets) \o y)]

set_train_data_unset(x, y) ==
    [train_inputs |-> train_inputs, train_targets |-> train_targets]

set_train_data(x, y) == [train_inputs |-> <<x>>, train_targets |-> Some(y)]

load_state_dict_reset(current, state_dict) ==
    IF state_dict = None THEN [k \in DOMAIN current |-> 0] ELSE Get(state_dict)

load_state_dict(current, state_dict) ==
    IF state_dict = None THEN current ELSE Get(state_dict)

(* botorch.fit.fit_gpytorch_model: the optimizer moves every parameter    *)
(* that requires grad to where it ends (opt) and leaves the others.        *)
fit_gpytorch_model(mstate, lstate, opt) ==
    [model |-> [constant |-> IF requires_grad THEN opt.constant
                             ELSE mstate.constant,
                variational_mean |-> opt.variational_mean],
     likelihood |-> [noise |-> IF likelihood = "GaussianLikelihood"
                               THEN opt.noise ELSE lstate.noise]]

_set_model(train_x, train_y, model_state_dict, likelihood_state_dict, opt) ==
    LET train_x_aug == _augment_with_deriv_index(train_x, 0)
        d == set_train_data(train_x_aug, train_y)
        start == [model |-> load_state_dict(model_state, model_state_dict),
                  likelihood |-> load_state_dict(likelihood_state,
                                                 likelihood_state_dict)]
        end == fit_gpytorch_model(start.model, start.likelihood, opt)
    IN  [train_inputs |-> d.train_inputs, train_targets |-> d.train_targets,
         start |-> start, model_state |-> end.model,
         likelihood_state |-> end.likelihood]

fit(train_x, train_y, opt) == _set_model(train_x, train_y, None, None, opt)

update(train_x, train_y, warmstart, opt) ==
    IF warmstart
    THEN _set_model(train_x, train_y, Some(model_state), Some(likelihood_state), opt)
    ELSE _set_model(train_x, train_y, None, None, opt)

----------------------------------------------------------------------------
(* Inputs *)

ParamVals == {0, 1}

OptResults == [constant : ParamVals, variational_mean : ParamVals, noise : ParamVals]

Points(n, x0, D) == [i \in 1..n |-> [k \in 1..D |-> x0 + i - 1]]

Grid(n, D) == [i \in 1..n |-> [k \in 1..D |-> (MaxDim + 1) * i + k]]

ExtremumTypes == {"min", "max", "median"}

Methods == {"taylor", "step", "linear"}

CredLevels == {95}

Targets(n, y0) == [i \in 1..n |-> y0 + i - 1]

Opt(S) == {None} \cup {Some(v) : v \in S}

Budgets == 1..MaxRejection \cup {rejection_ratio}

ShapeSeqs(count, S) == [1..Min(count, MaxPeriod) -> S]

MonoPool(D) ==
    {m \in UNION {[1..l -> 0..(D - 1)] : l \in 0..Min(D, 2)} :
        \A a, b \in 1..Len(m) : a # b => m[a] # m[b]}

Likelihoods == {"BernoulliLikelihood", "GaussianLikelihood"}

FixedPriorMeans(lik) ==
    IF lik = Some("GaussianLikelihood") THEN Opt({1500, 750}) ELSE Opt({750, 250})

CtorArgs(D, mono, ni, lik, fpm) ==
    [monotonic_idxs |-> mono,
     lb |-> [k \in 1..D |-> 0],
     ub |-> [k \in 1..D |-> 4],
     dim |-> Some(D),
     likelihood |-> lik,
     fixed_prior_mean |-> fpm,
     num_induc |-> ni,
     num_samples |-> MaxSamples,
     num_rejection_samples |-> MaxRejection,
     seed |-> 0]

Config(D, mono, ni) ==
    [monotonic_idxs |-> mono,
     lb |-> [k \in 1..D |-> 0],
     ub |-> [k \in 1..D |-> 4],
     dim |-> None,
     num_induc |-> Some(ni),
     num_samples |-> Some(MaxSamples),
     num_rejection_samples |-> Some(MaxRejection),
     seed |-> 0]

----------------------------------------------------------------------------
(* Actions *)

Idle == call.op = "idle"

(* The caller is done with the result of its last call. *)
Discard ==
    /\ ~Idle
    /\ call' = [op |-> "idle"]
    /\ ret' = None
    /\ warned' = {}
    /\ raised' = NoError
    /\ UNCHANGED <<self_, params, data>>

FitDone(r, c) ==
    /\ train_inputs' = r.train_inputs
    /\ train_targets' = r.train_targets
    /\ model_state' = r.model_state
    /\ likelihood_state' = r.likelihood_state
    /\ call' = c @@ [start |-> r.start, held |-> train_inputs]
    /\ ret' = None
    /\ warned' = {}
    /\ raised' = NoError
    /\ UNCHANGED self_

Fit ==
    /\ Idle
    /\ \E n \in 1..MaxRows, x0 \in {0, 1}, y0 \in {0, 1}, opt \in OptResults :
           LET train_x == Points(n, x0, dim)
               train_y == Targets(n, y0)
           IN  FitDone(fit(train_x, train_y, opt),
                       [op |-> "fit", train_x |-> train_x, train_y |-> train_y,
                        warmstart |-> FALSE])

Update ==
    /\ Idle
    /\ \E n \in 1..MaxRows, x0 \in {0, 1}, y0 \in {0, 1}, opt \in OptResults,
          warmstart \in BOOLEAN :
           LET train_x == Points(n, x0, dim)
               train_y == Targets(n, y0)
           IN  FitDone(update(train_x, train_y, warmstart, opt),
                       [op |-> "update", train_x |-> train_x, train_y |-> train_y,
                        warmstart |-> warmstart])

Returned(r, c) ==
    /\ call' = c @@ [n |-> r.n, x_aug |-> r.x_aug, deriv_cp |-> r.deriv_cp,
                     constrained_idx |-> r.constrained_idx, samples |-> r.samples]
    /\ ret' = r.ret
    /\ warned' = r.warned
    /\ raised' = r.raised
    /\ UNCHANGED <<self_, params, data>>

SampleCall(X, num_samples_arg, num_rejection_samples_arg, shape) ==
    Returned(sample(X, num_samples_arg, num_rejection_samples_arg, shape),
             [op |-> "sample", X |-> X, num_samples |-> num_samples_arg,
              num_rejection_samples |-> num_rejection_samples_arg,
              probability_space |-> FALSE, shape |-> shape])

PredictCall(X, probability_space, shape) ==
    Returned(predict(X, probability_space, shape),
             [op |-> "predict", X |-> X, num_samples |-> None,
              num_rejection_samples |-> None,
              probability_space |-> probability_space, shape |-> shape])

Sample ==
    /\ Idle
    /\ \E n \in 1..MaxRows, nsa \in Opt(1..MaxSamples), nrsa \in Opt(Budgets) :
           \E shape \in ShapeSeqs(or_default(nrsa, num_rejection_samples), Shapes) :
               SampleCall(Points(n, 0, dim), nsa, nrsa, shape)

Predict ==
    /\ Idle
    /\ \E n \in 1..MaxRows, probability_space \in BOOLEAN :
           \E shape \in ShapeSeqs(num_rejection_samples, Shapes) :
               PredictCall(Points(n, 0, dim), probability_space, shape)

(* _augment_with_deriv_index called on its own; X_after is the argument   *)
(* as the caller finds it once the call has returned.                      *)
Augment ==
    /\ Idle
    /\ \E n \in 0..MaxRows, D \in 1..MaxDim, indx \in 0..MaxDim :
           LET X == Grid(n, D)
           IN  /\ call' = [op |-> "_augment_with_deriv_index", X |-> X,
                           indx |-> indx, D |-> D, X_after |-> X]
               /\ ret' = Some(_augment_with_deriv_index(X, indx))
               /\ warned' = {}
               /\ raised' = NoError
               /\ UNCHANGED <<self_, params, data>>

QueryDone(r, c) ==
    /\ call' = c @@ [message |-> r.message]
    /\ ret' = r.ret
    /\ warned' = r.warned
    /\ raised' = r.raised
    /\ UNCHANGED <<self_, params, data>>

GetExtremum ==
    /\ Idle
    /\ \E extremum_type \in ExtremumTypes, fun \in {-1, 1}, at \in 1..MaxRows :
           \E shape \in ShapeSeqs(num_rejection_samples, Shapes) :
               LET a == [fun |-> fun,
                         x |-> make_scaled_sobol(lb, ub, MaxRows, 0)[at]]
               IN  QueryDone(_get_extremum(extremum_type, MaxRows, a, shape),
                             [op |-> "_get_extremum",
                              extremum_type |-> extremum_type,
                              n_samples |-> MaxRows, shape |-> shape])

GetJnd ==
    /\ Idle
    /\ \E gridsize \in 2..MaxGrid, cred_level \in Opt(CredLevels),
          method \in Methods :
           \E shape \in ShapeSeqs(num_rejection_samples, Shapes) :
               QueryDone(get_jnd(dim_grid(lb, ub, dim, gridsize), cred_level,
                                 MaxSamples, method, shape),
                         [op |-> "get_jnd", cred_level |-> cred_level,
                          confsamps |-> MaxSamples, method |-> method,
                          gridsize |-> gridsize, shape |-> shape])

SampleDefaults ==
    /\ Idle
    /\ \E n \in 1..MaxRows :
           \E shape \in ShapeSeqs(num_rejection_samples, {"pos", "lastneg"}) :
               SampleCall(Points(n, 0, dim), None, None, shape)

PredictDefaults ==
    /\ Idle
    /\ \E n \in 1..MaxRows, probability_space \in BOOLEAN :
           \E shape \in ShapeSeqs(num_rejection_samples, {"pos", "lastneg"}) :
               PredictCall(Points(n, 0, dim), probability_space, shape)

----------------------------------------------------------------------------
(* Specifications *)

(* Models of every prior-mean and likelihood setting, and of every size.   *)
Init ==
    \/ \E lik \in Opt(Likelihoods) : \E fpm \in FixedPriorMeans(lik) :
          __init__(CtorArgs(MaxDim, <<MaxDim - 1>>, MaxInduc, lik, fpm), None)
    \/ \E D \in 1..MaxDim, ni \in 1..MaxInduc :
          __init__(CtorArgs(D, <<D - 1>>, ni, None, None), None)

Next == Fit \/ Update \/ SampleDefaults \/ PredictDefaults \/ Discard

Spec == Init /\ [][Next]_vars

(* Models of every size and every choice of monotonic dimensions, built    *)
(* directly or from a configuration, queried with every argument.          *)
InitSample ==
    \E D \in 1..MaxDim, ni \in 1..MaxInduc :
        \/ \E mono \in MonoPool(D) :
              __init__(CtorArgs(D, mono, ni, None, None), None)
        \/ \E mono \in Opt({<<D - 1>>}) :
              __init__(from_config(Config(D, mono, ni)), Some(Config(D, mono, ni)))

NextSample == Sample \/ Predict \/ Augment \/ Discard

SpecSample == InitSample /\ [][NextSample]_vars

NextQuery == GetExtremum \/ GetJnd \/ Discard

SpecQuery == Init /\ [][NextQuery]_vars

----------------------------------------------------------------------------
(* What a sample or predict call was asked for, read off the call itself.  *)

Sampled == call.op \in {"sample", "predict"} /\ raised = NoError

AskedSamples ==
    IF call.num_samples = None THEN num_samples ELSE call.num_samples[1]

AskedBudget ==
    IF call.num_rejection_samples = None THEN num_rejection_samples
    ELSE call.num_rejection_samples[1]

(* The batch the posterior produced for the call. *)
Draws == rsample(posterior(call.x_aug, call.shape), AskedBudget)

(* The rows of the combined point set that follow the query rows. *)
ConstraintRows == (Len(call.X) + 1)..Len(call.x_aug)

Passes(draw) == \A p \in ConstraintRows : draw[p] >= 0

PassIdx == {r \in 1..Len(Draws) : Passes(Draws[r])}

(* The s-th passing draw of the batch, in draw order. *)
NthPassing(s) ==
    Draws[CHOOSE r \in PassIdx : Cardinality({q \in PassIdx : q <= r}) = s]

----------------------------------------------------------------------------
(* C1: every sample that sample returns is the query-row part of a draw of *)
(* the batch whose value is >= 0 at every row of the constraint block; no  *)
(* draw with a negative value there is returned.                           *)
C1_OnlyMonotonicDraws ==
    (call.op = "sample" /\ raised = NoError) =>
        /\ Len(ret[1]) = Len(call.samples)
        /\ \A s \in 1..Len(call.samples) :
              /\ \E r \in 1..Len(Draws) :
                    /\ Draws[r] = call.samples[s]
                    /\ ret[1][s] = SubSeq(Draws[r], 1, Len(call.X))
              /\ \A p \in ConstraintRows : call.samples[s][p] >= 0

(* A call that returned a sample while another draw of its batch was      *)
(* negative at one row of the constraint block only.                       *)
C1_Witness ==
    /\ call.op = "sample" /\ raised = NoError
    /\ Len(ret[1]) >= 1
    /\ Cardinality(ConstraintRows) >= 2
    /\ \E r \in 1..Len(Draws) :
          Draws[r][Len(call.X) + 1] < 0 /\ Draws[r][Len(call.x_aug)] >= 0

(* C2: with P passing draws and target S, sample returns exactly the first *)
(* min(S, P) passing draws in draw order, so at most S and exactly S when  *)
(* P >= S.                                                                 *)
C2_FirstPassingInOrder ==
    (call.op = "sample" /\ raised = NoError) =>
        LET P == Cardinality(PassIdx)
            k == Min(AskedSamples, P)
        IN  /\ Len(ret[1]) = k
            /\ Len(ret[1]) <= AskedSamples
            /\ (P >= AskedSamples => Len(ret[1]) = AskedSamples)
            /\ \A s \in 1..k : ret[1][s] = SubSeq(NthPassing(s), 1, Len(call.X))

(* A call with more passing draws than asked for, a rejected draw before   *)
(* the last returned one, and two or more returned.                        *)
C2_Witness ==
    /\ call.op = "sample" /\ raised = NoError
    /\ AskedSamples >= 2
    /\ Cardinality(PassIdx) > AskedSamples
    /\ ~Passes(Draws[1])
    /\ Len(ret[1]) = AskedSamples

(* C3: sample raises nothing; it warns of a shortfall exactly when fewer   *)
(* draws pass than were asked for, and then returns all that passed.       *)
C3_ShortfallWarnsAndReturns ==
    call.op = "sample" =>
        /\ raised = NoError
        /\ ("shortfall" \in warned) <=> (Cardinality(PassIdx) < AskedSamples)
        /\ Cardinality(PassIdx) < AskedSamples =>
              /\ Len(ret[1]) = Cardinality(PassIdx)
              /\ \A s \in 1..Len(ret[1]) :
                    ret[1][s] = SubSeq(NthPassing(s), 1, Len(call.X))

(* A shortfall with one draw passed and one rejected. *)
C3_Witness ==
    /\ call.op = "sample" /\ raised = NoError
    /\ "shortfall" \in warned
    /\ Cardinality(PassIdx) = 1
    /\ Len(ret[1]) = 1
    /\ Len(Draws) >= 2

----------------------------------------------------------------------------
(* What predict returned. *)

Predicted == call.op = "predict" /\ raised = NoError

Defined(x) == x.den > 0

(* C4: for every number k of accepted samples, 0 and 1 included, predict   *)
(* returns a defined mean and a defined, non-negative variance for every   *)
(* row of X.                                                               *)
C4_PredictToleratesShortfall ==
    Predicted =>
        LET mean == ret[1][1]
            variance == ret[1][2]
        IN  /\ Len(mean.data) = Len(call.X)
            /\ Len(variance.data) = Len(call.X)
            /\ \A i \in 1..Len(call.X) :
                  /\ Defined(mean.data[i])
                  /\ Defined(variance.data[i])
                  /\ variance.data[i].num >= 0

(* C5: for X of n >= 1 rows and either value of probability_space, predict *)
(* returns a mean and a variance of shape (n,) each, and no variance entry *)
(* is negative.                                                            *)
C5_PredictShape ==
    Predicted =>
        LET mean == ret[1][1]
            variance == ret[1][2]
        IN  /\ mean.shape = <<Len(call.X)>>
            /\ variance.shape = <<Len(call.X)>>
            /\ \A i \in 1..Len(variance.data) :
                  ~(Defined(variance.data[i]) /\ variance.data[i].num < 0)

(* C6: the constraint point set has num_induc * |monotonic_idxs| rows: one *)
(* block per entry of monotonic_idxs, in that order, each the inducing     *)
(* points in order with the entry's index + 1 as the tag of every row.     *)
C6_ConstraintPoints ==
    Sampled =>
        /\ Len(call.deriv_cp) = num_induc * Len(monotonic_idxs)
        /\ \A b \in 1..Len(monotonic_idxs) : \A i \in 1..num_induc :
              LET row == call.deriv_cp[(b - 1) * num_induc + i]
              IN  /\ Len(row) = dim + 1
                  /\ SubSeq(row, 1, dim) = inducing_points[i]
                  /\ row[dim + 1] = monotonic_idxs[b] + 1

(* A call on a model with two monotonic dimensions, listed in descending   *)
(* order, and two or more inducing points.                                 *)
C6_Witness ==
    /\ Sampled
    /\ Len(monotonic_idxs) = 2
    /\ monotonic_idxs[1] > monotonic_idxs[2]
    /\ num_induc >= 2
    /\ Len(call.deriv_cp) = 2 * num_induc

(* C7: a model built from a configuration with no monotonic_idxs setting   *)
(* is monotonic in the last dimension only: every constraint point carries *)
(* the tag of the last dimension, dim.                                     *)
C7_DefaultLastDimension ==
    (Sampled /\ config # None /\ config[1].monotonic_idxs = None) =>
        /\ Len(call.deriv_cp) = num_induc
        /\ \A p \in 1..Len(call.deriv_cp) :
              /\ Tag(call.deriv_cp[p]) = dim
              /\ Tag(call.deriv_cp[p]) \in 1..dim

----------------------------------------------------------------------------
(* C8: with a fixed prior mean v supplied at construction, the mean's      *)
(* constant is v (Gaussian likelihood) or the inverse normal CDF of v      *)
(* (Bernoulli likelihood) after construction and after every fit and       *)
(* update, warm-started or not.                                            *)
C8_FixedPriorMeanFrozen ==
    init_args.fixed_prior_mean # None =>
        LET v == init_args.fixed_prior_mean[1]
        IN  model_state.constant =
                IF init_args.likelihood = Some("GaussianLikelihood")
                THEN v
                ELSE PpfTable[v]

(* A warm-started update of a Bernoulli model built with prior mean 0.75,  *)
(* the optimizer having moved the other parameters.                        *)
C8_Witness ==
    /\ init_args.fixed_prior_mean = Some(750)
    /\ likelihood = "BernoulliLikelihood"
    /\ call.op = "update"
    /\ call.warmstart
    /\ call.held # None
    /\ model_state.variational_mean # call.start.model.variational_mean
    /\ model_state.constant = 674

(* C9: after every fit or update the training inputs are exactly the tag-0 *)
(* augmentation of that call's train_x (its row count, dim + 1 columns)    *)
(* and the training targets are that call's train_y; sample and predict    *)
(* leave both alone.                                                       *)
C9_TrainDataReplaced ==
    /\ [](call.op \in {"fit", "update"} =>
            /\ Len(train_inputs) = 1
            /\ Len(train_inputs[1]) = Len(call.train_x)
            /\ \A i \in 1..Len(call.train_x) :
                  train_inputs[1][i] = call.train_x[i] \o <<0>>
            /\ train_targets = Some(call.train_y))
    /\ [][call'.op \in {"sample", "predict", "idle"} =>
            (train_inputs' = train_inputs /\ train_targets' = train_targets)]_vars

(* An update with fewer rows than the model held before it. *)
C9_Witness ==
    /\ call.op = "update"
    /\ call.held # None
    /\ Len(call.held[1]) > Len(call.train_x)
    /\ Len(train_inputs[1]) = Len(call.train_x)

(* C10: the inducing point set has shape (num_induc, dim) from             *)
(* construction on, and no fit, update, sample or predict changes it.      *)
C10_InducingPointsFixed ==
    /\ [](/\ Len(inducing_points) = num_induc
          /\ \A i \in 1..Len(inducing_points) : Len(inducing_points[i]) = dim)
    /\ [][inducing_points' = inducing_points]_vars

(* A predict on a fitted model of fewer inducing points than dimensions.   *)
C10_Witness ==
    /\ call.op = "predict"
    /\ train_inputs # None
    /\ num_induc < dim
    /\ Len(inducing_points) = num_induc

----------------------------------------------------------------------------
(* C11: _augment_with_deriv_index(X, indx) returns, for an N x D input, an *)
(* N x (D+1) result whose first D columns are the input's, row for row,    *)
(* and whose last column is indx in every row; the input is left as it     *)
(* was.                                                                    *)
C11_AugmentAppendsTag ==
    call.op = "_augment_with_deriv_index" =>
        /\ raised = NoError
        /\ Len(ret[1]) = Len(call.X)
        /\ \A r \in 1..Len(call.X) :
              /\ Len(ret[1][r]) = call.D + 1
              /\ \A c \in 1..call.D : ret[1][r][c] = call.X[r][c]
              /\ ret[1][r][call.D + 1] = call.indx
        /\ call.X_after = call.X

(* Two rows of two columns tagged with a derivative index. *)
C11_Witness ==
    /\ call.op = "_augment_with_deriv_index"
    /\ Len(call.X) = 2
    /\ call.D = 2
    /\ call.indx = 2
    /\ ret[1][2] = <<call.X[2][1], call.X[2][2], 2>>

----------------------------------------------------------------------------
(* The model is Fitted once it holds training data. *)
Fitted == train_inputs # None

(* C12: the model is either Unfitted (no training inputs, no targets) or   *)
(* Fitted (both set); a fit or update always ends in Fitted, no operation  *)
(* leads from Fitted back to Unfitted, and sample and predict raise        *)
(* nothing in either state and leave the state as it was.                  *)
C12_Lifecycle ==
    /\ [](Fitted <=> train_targets # None)
    /\ [][/\ call'.op \in {"fit", "update"} => Fitted'
          /\ Fitted => Fitted'
          /\ call'.op \in {"sample", "predict"} =>
                /\ raised' = NoError
                /\ Fitted' <=> Fitted]_vars

(* sample answered by a model that was never fitted. *)
C12_Witness ==
    /\ call.op = "sample"
    /\ ~Fitted
    /\ raised = NoError
    /\ ret # None

----------------------------------------------------------------------------
(* C16: fit, update with warmstart and update without it hand the fitting  *)
(* procedure the same starting parameters, the model's and likelihood's    *)
(* parameters as they were when the call was made.                         *)
C16_SameStartingParameters ==
    [][call'.op \in {"fit", "update"} =>
          call'.start = [model |-> model_state,
                         likelihood |-> likelihood_state]]_vars

(* An update without warmstart that starts from parameters an earlier fit  *)
(* had moved.                                                              *)
C16_Witness ==
    /\ call.op = "update"
    /\ ~call.warmstart
    /\ call.held # None
    /\ call.start.model.variational_mean = 1

----------------------------------------------------------------------------
(* C14: in sample with n query rows the combined point set has             *)
(* n + num_induc * |monotonic_idxs| rows, so the assertion never fails;    *)
(* constrained_idx is the range n .. n + num_induc * |monotonic_idxs| - 1; *)
(* and each returned sample has n entries, the values of its draw at rows  *)
(* 0 .. n-1 in query order.                                                *)
C14_RowLayout ==
    call.op = "sample" =>
        LET n == Len(call.X)
            c == num_induc * Len(monotonic_idxs)
        IN  /\ raised # "AssertionError"
            /\ Len(call.x_aug) = n + c
            /\ call.constrained_idx = [k \in 1..c |-> n + k - 1]
            /\ raised = NoError =>
                  \A s \in 1..Len(ret[1]) :
                     /\ Len(ret[1][s]) = n
                     /\ \E r \in 1..Len(Draws) :
                           /\ Draws[r] = call.samples[s]
                           /\ \A i \in 1..n : ret[1][s][i] = Draws[r][i]

(* Two query rows ahead of a constraint block of two rows, one sample      *)
(* returned.                                                               *)
C14_Witness ==
    /\ call.op = "sample" /\ raised = NoError
    /\ Len(call.X) = 2
    /\ num_induc * Len(monotonic_idxs) = 2
    /\ call.constrained_idx = <<2, 3>>
    /\ Len(ret[1]) >= 1
    /\ ret[1][1] = <<call.samples[1][1], call.samples[1][2]>>

----------------------------------------------------------------------------
(* C15: sample warns about the budget exactly when the number of samples   *)
(* asked for times 20 exceeds the rejection budget, the model's defaults   *)
(* standing in for an argument left unset; warned or not it raises nothing *)
(* and returns the first passing draws up to the number asked for.         *)
C15_BudgetWarningOnly ==
    call.op = "sample" =>
        /\ ("budget" \in warned) <=> (AskedSamples * rejection_ratio > AskedBudget)
        /\ raised = NoError
        /\ ret # None
        /\ Len(ret[1]) = Min(AskedSamples, Cardinality(PassIdx))
        /\ \A s \in 1..Len(ret[1]) :
              ret[1][s] = SubSeq(NthPassing(s), 1, Len(call.X))

(* A warned call with the number of samples left to the model's default,   *)
(* which still returned that many samples.                                 *)
C15_Witness ==
    /\ call.op = "sample"
    /\ call.num_samples = None
    /\ "budget" \in warned
    /\ raised = NoError
    /\ Len(ret[1]) = num_samples

(* A call within the ratio, which is not warned. *)
C15_Unwarned ==
    /\ call.op = "sample"
    /\ AskedSamples * rejection_ratio <= AskedBudget
    /\ warned = {}
    /\ Len(ret[1]) = AskedSamples

----------------------------------------------------------------------------
Names(message, value) == \E i \in 1..Len(message) : message[i] = value

(* C13: a call given an unknown name fails with an error whose message     *)
(* names the unknown value: _get_extremum with a type other than 'min' or  *)
(* 'max', and get_jnd with a method other than 'taylor' or 'step',         *)
(* whatever cred_level is, None included.                                  *)
C13_UnknownNameNamed ==
    /\ (call.op = "_get_extremum" /\ call.extremum_type \notin {"min", "max"}) =>
          /\ raised # NoError
          /\ Names(call.message, call.extremum_type)
    /\ (call.op = "get_jnd" /\ call.method \notin {"taylor", "step"}) =>
          /\ raised # NoError
          /\ Names(call.message, call.method)

====
